---- MODULE Spec2Model ----
(***************************************************************************)
(* Model of src/mastermind.py: GameConfig, MastermindGame with its         *)
(* per-turn entry point play_turn, and the interactive loop of main().     *)
(*                                                                         *)
(* Representation.  A Python str and a list of one-character strings are   *)
(* both a sequence of characters, so list(guess) and ''.join(secret_code)  *)
(* keep the sequence as it is.  The palette COLORS is kept as the set of   *)
(* its elements: the code only tests membership in it and draws from it.   *)
(* Palette entries are single characters.                                  *)
(***************************************************************************)
EXTENDS Integers, Sequences, FiniteSets, TLC

VARIABLES
    status,         \* "config": a GameConfig exists, MastermindGame(config) not yet run;
                    \* "ready": __init__ returned; "error": __init__ raised
    config,         \* self.config: [COLORS, CODE_LENGTH, MAX_TRIES]
    secret_code,    \* self.secret_code
    tries,          \* self.tries
    game_won,       \* self.game_won
    guess,          \* the argument of the latest play_turn call
    accepted,       \* first component of the latest play_turn return value
    message,        \* second component of the latest play_turn return value
    exact_matches,  \* play_turn's local exact_matches in the latest call
    color_matches,  \* play_turn's local color_matches in the latest call
    accepted_calls, \* history: the play_turn calls that returned accepted = True
    rejected_calls, \* history: the play_turn calls that returned accepted = False,
                    \* counted up to MaxRejected
    pc,             \* who drives the game: "caller" for code that calls the class
                    \* directly; for main(): "start" (line 97 not yet run), "loop"
                    \* (at the while test of line 100), "done" (loop left), "quit"
                    \* (sys.exit on line 105), "crashed" (line 97 raised)
    objects         \* for a caller that holds two games: which of them the
                    \* variables above show, the identities of the objects it
                    \* refers to, the other game, and the number of objects
                    \* built so far

\* the game and what its latest call returned
game_vars == <<status, config, secret_code, tries, game_won, guess, accepted,
               message, exact_matches, color_matches, accepted_calls, rejected_calls>>

vars == <<game_vars, pc, objects>>

---------------------------------------------------------------------------
\* Bounds of the model.

\* largest CODE_LENGTH a caller passes
MaxLen == 2
\* largest MAX_TRIES a caller passes
MaxTriesArg == 2
\* accepted guesses explored per game (play_turn itself has no limit)
MaxTurns == 3
\* rejected guesses told apart by the history counter
MaxRejected == 1

\* defaults of the GameConfig dataclass
DEFAULT_CODE_LENGTH == 4
DEFAULT_MAX_TRIES == 10
DEFAULT_COLORS == {"R", "G", "B", "Y", "W", "O"}

\* the COLORS argument left at its default None
NoColors == {"<None>"}
\* Python's None inside the working copies of _evaluate_guess
None == "<None>"

\* characters callers use in palettes and players type in guesses
PaletteChars == {"R", "G", "r"}
InputChars == {"R", "G", "r"}
\* the four colours of the scoring scenarios
ScoreColors == {"R", "G", "B", "Y"}

---------------------------------------------------------------------------
\* str.upper()

\* one character
upper_char(c) ==
    CASE c = "r" -> "R"
      [] c = "g" -> "G"
      [] c = "b" -> "B"
      [] c = "y" -> "Y"
      [] c = "w" -> "W"
      [] c = "o" -> "O"
      [] c = "q" -> "Q"
      [] OTHER -> c

\* the string as it is: what play_turn works on without line 68
upper_dropped(s) == s

\* a whole string
upper(s) == [i \in 1..Len(s) |-> upper_char(s[i])]

\* str.lower(), one character
lower_char(c) ==
    CASE c = "R" -> "r"
      [] c = "G" -> "g"
      [] c = "B" -> "b"
      [] c = "Y" -> "y"
      [] c = "W" -> "w"
      [] c = "O" -> "o"
      [] c = "Q" -> "q"
      [] OTHER -> c

\* str.lower(), a whole string
lower(s) == [i \in 1..Len(s) |-> lower_char(s[i])]

\* str.strip(): the string without its leading and trailing blanks
strip(s) ==
    LET kept == {i \in 1..Len(s) : s[i] # " "}
    IN  IF kept = {}
        THEN <<>>
        ELSE SubSeq(s,
                    CHOOSE i \in kept : \A j \in kept : i <= j,
                    CHOOSE i \in kept : \A j \in kept : j <= i)

\* list(str): the characters of the string, in order
list(s) == [i \in 1..Len(s) |-> s[i]]

\* ''.join(l) for a list of one-character strings
join(l) == [i \in 1..Len(l) |-> l[i]]

---------------------------------------------------------------------------
\* GameConfig

__post_init__(colors) == IF colors = NoColors THEN DEFAULT_COLORS ELSE colors

GameConfig(colors, code_length, max_tries) ==
    [COLORS |-> __post_init__(colors),
     CODE_LENGTH |-> code_length,
     MAX_TRIES |-> max_tries]

---------------------------------------------------------------------------
\* MastermindGame

\* random.choices(population, k=k): every list it can return; the empty set
\* when it raises (IndexError on an empty population with k >= 1).  For
\* k <= 0 it returns [] whatever the population.
choices(population, k) ==
    IF k <= 0 THEN {<<>>}
    ELSE IF population = {} THEN {}
    ELSE [1..k -> population]

_generate_secret_code == choices(config.COLORS, config.CODE_LENGTH)

\* _validate_guess with any() where the code has all()
_validate_guess_any(g) ==
    IF Len(g) # config.CODE_LENGTH
    THEN FALSE
    ELSE \E i \in 1..Len(g) : upper_char(g[i]) \in config.COLORS

_validate_guess(g) ==
    IF Len(g) # config.CODE_LENGTH
    THEN FALSE
    ELSE \A i \in 1..Len(g) : upper_char(g[i]) \in config.COLORS

\* list.copy(): a new list with the same elements
copy(l) == [i \in 1..Len(l) |-> l[i]]

\* the working state of _evaluate_guess on a game whose self.secret_code is
\* s: its four locals, and self.secret_code itself
EvalStart(s, g) ==
    [secret_code |-> s,
     secret_copy |-> copy(s),
     guess_copy |-> copy(g),
     exact_matches |-> 0,
     color_matches |-> 0]

\* secret_copy[i] = None when secret_copy is self.secret_code itself (line 46
\* without .copy())
blank_secret_copy_aliased(st, i) ==
    [st EXCEPT !.secret_copy[i] = None, !.secret_code[i] = None]

\* secret_copy[i] = None: secret_copy is a list of its own, self.secret_code
\* is not written
blank_secret_copy(st, i) == [st EXCEPT !.secret_copy[i] = None]

\* the first loop's body without line 53: the matched slots stay in place
exact_step_no_blank(st, i) ==
    IF st.guess_copy[i] = st.secret_copy[i]
    THEN [st EXCEPT !.exact_matches = @ + 1]
    ELSE st

\* body of the first loop, for index i
exact_step(st, i) ==
    IF st.guess_copy[i] = st.secret_copy[i]
    THEN [blank_secret_copy(st, i) EXCEPT !.exact_matches = @ + 1,
                                          !.guess_copy[i] = None]
    ELSE st

\* list.index(x): the first position holding x
index(l, x) ==
    CHOOSE i \in 1..Len(l) : l[i] = x /\ \A j \in 1..(i - 1) : l[j] # x

\* x in l
contains(l, x) == \E j \in 1..Len(l) : l[j] = x

\* the second loop's body without line 59: the secret slot is not consumed
color_step_no_consume(st, i) ==
    IF st.guess_copy[i] # None /\ contains(st.secret_copy, st.guess_copy[i])
    THEN [st EXCEPT !.color_matches = @ + 1]
    ELSE st

\* body of the second loop, for index i
color_step(st, i) ==
    IF st.guess_copy[i] # None /\ contains(st.secret_copy, st.guess_copy[i])
    THEN [blank_secret_copy(st, index(st.secret_copy, st.guess_copy[i]))
              EXCEPT !.color_matches = @ + 1]
    ELSE st

\* for i in range(len(secret_copy)): first loop from index i on
RECURSIVE exact_loop(_, _)
exact_loop(st, i) ==
    IF i > Len(st.secret_copy) THEN st ELSE exact_loop(exact_step(st, i), i + 1)

\* for i in range(len(guess_copy)): second loop from index i on
RECURSIVE color_loop(_, _)
color_loop(st, i) ==
    IF i > Len(st.guess_copy) THEN st ELSE color_loop(color_step(st, i), i + 1)

\* the two loops of _evaluate_guess run on a game whose self.secret_code is s
score_loops(s, g) == color_loop(exact_loop(EvalStart(s, g), 1), 1)

\* self._evaluate_guess(g): the returned (exact_matches, color_matches), and
\* self.secret_code as the call leaves it
_evaluate_guess(g) ==
    LET st == score_loops(secret_code, g)
    IN  [result |-> <<st.exact_matches, st.color_matches>>,
         secret_code |-> st.secret_code]

\* the feedback messages of play_turn, as what they show
NoMessage == [kind |-> "none", tries |-> 0, code |-> <<>>, exact |-> 0, color |-> 0]
InvalidMessage == [NoMessage EXCEPT !.kind = "Invalid guess"]
WonMessage(t) == [NoMessage EXCEPT !.kind = "Congratulations", !.tries = t]
GameOverMessage(code) == [NoMessage EXCEPT !.kind = "Game Over", !.code = code]
MatchesMessage(e, c) == [NoMessage EXCEPT !.kind = "Matches", !.exact = e, !.color = c]

\* the end of play_turn with > where line 79 has >=
turn_result_gt(w, t, e, c) ==
    IF e = config.CODE_LENGTH
    THEN [game_won |-> TRUE, message |-> WonMessage(t)]
    ELSE IF t > config.MAX_TRIES
    THEN [game_won |-> w, message |-> GameOverMessage(join(secret_code))]
    ELSE [game_won |-> w, message |-> MatchesMessage(e, c)]

\* the end of play_turn assigning game_won on every turn, not only on a win
turn_result_reassign(w, t, e, c) ==
    IF e = config.CODE_LENGTH
    THEN [game_won |-> TRUE, message |-> WonMessage(t)]
    ELSE IF t >= config.MAX_TRIES
    THEN [game_won |-> FALSE, message |-> GameOverMessage(join(secret_code))]
    ELSE [game_won |-> FALSE, message |-> MatchesMessage(e, c)]

\* the end of play_turn, after scoring: the new game_won and the message,
\* from the old game_won w, the incremented tries t and the score (e, c)
turn_result(w, t, e, c) ==
    IF e = config.CODE_LENGTH
    THEN [game_won |-> TRUE, message |-> WonMessage(t)]
    ELSE IF t >= config.MAX_TRIES
    THEN [game_won |-> w, message |-> GameOverMessage(join(secret_code))]
    ELSE [game_won |-> w, message |-> MatchesMessage(e, c)]

\* MastermindGame(config)
__init__ ==
    /\ status = "config"
    /\ IF _generate_secret_code = {}
       THEN /\ status' = "error"
            /\ UNCHANGED <<secret_code, tries, game_won>>
       ELSE /\ secret_code' \in _generate_secret_code
            /\ tries' = 0
            /\ game_won' = FALSE
            /\ status' = "ready"
    /\ UNCHANGED <<config, guess, accepted, message, exact_matches, color_matches,
                   accepted_calls, rejected_calls>>

\* what play_turn(g) returns and leaves behind when called in the current
\* state: the pair it returns, and tries and game_won after the call
turn(g) ==
    LET u == upper(g)
    IN  IF ~_validate_guess(u)
        THEN [accepted |-> FALSE, message |-> InvalidMessage,
              tries |-> tries, game_won |-> game_won]
        ELSE LET ev == _evaluate_guess(list(u))
                 r == turn_result(game_won, tries + 1, ev.result[1], ev.result[2])
             IN  [accepted |-> TRUE, message |-> r.message,
                  tries |-> tries + 1, game_won |-> r.game_won]

\* a history counter that stops at its bound
CountUpTo(n, bound) == IF n < bound THEN n + 1 ELSE n

\* play_turn with line 72 moved before the validation: every call counts
play_turn_counts_rejected(g) ==
    /\ status = "ready"
    /\ guess' = g
    /\ \E u \in {upper(g)} :
         IF ~_validate_guess(u)
         THEN /\ accepted' = FALSE
              /\ message' = InvalidMessage
              /\ exact_matches' = 0
              /\ color_matches' = 0
              /\ rejected_calls' = CountUpTo(rejected_calls, MaxRejected)
              /\ tries < MaxTurns
              /\ tries' = tries + 1
              /\ UNCHANGED <<game_won, secret_code, accepted_calls>>
         ELSE /\ tries < MaxTurns
              /\ tries' = tries + 1
              /\ accepted_calls' = accepted_calls + 1
              /\ UNCHANGED rejected_calls
              /\ \E ev \in {_evaluate_guess(list(u))} :
                   /\ secret_code' = ev.secret_code
                   /\ exact_matches' = ev.result[1]
                   /\ color_matches' = ev.result[2]
                   /\ \E r \in {turn_result(game_won, tries', ev.result[1], ev.result[2])} :
                        /\ game_won' = r.game_won
                        /\ accepted' = TRUE
                        /\ message' = r.message
    /\ UNCHANGED <<status, config>>

\* game.play_turn(g); exact_matches and color_matches are 0 when the call
\* returns before scoring
play_turn(g) ==
    /\ status = "ready"
    /\ guess' = g
    /\ \E u \in {upper(g)} :
         IF ~_validate_guess(u)
         THEN /\ accepted' = FALSE
              /\ message' = InvalidMessage
              /\ exact_matches' = 0
              /\ color_matches' = 0
              /\ rejected_calls' = CountUpTo(rejected_calls, MaxRejected)
              /\ UNCHANGED <<tries, game_won, secret_code, accepted_calls>>
         ELSE /\ tries < MaxTurns
              /\ tries' = tries + 1
              /\ accepted_calls' = accepted_calls + 1
              /\ UNCHANGED rejected_calls
              /\ \E ev \in {_evaluate_guess(list(u))} :
                   /\ secret_code' = ev.secret_code
                   /\ exact_matches' = ev.result[1]
                   /\ color_matches' = ev.result[2]
                   /\ \E r \in {turn_result(game_won, tries', ev.result[1], ev.result[2])} :
                        /\ game_won' = r.game_won
                        /\ accepted' = TRUE
                        /\ message' = r.message
    /\ UNCHANGED <<status, config>>

---------------------------------------------------------------------------
\* Object identities.  The objects a game refers to are numbered in the order
\* they are built; 0 stands for no object.

\* the references of a game that is not constructed
NoRefs == [config |-> 0, COLORS |-> 0, secret_code |-> 0]

\* a palette list kept in one place and handed to every default configuration
shared_default_list(n) == 0

\* line 15: the list display builds a new list object, the n-th object built
new_default_list(n) == n

\* self as the variables show it
self_game ==
    [status |-> status, config |-> config, secret_code |-> secret_code,
     tries |-> tries, game_won |-> game_won, guess |-> guess,
     accepted |-> accepted, message |-> message,
     exact_matches |-> exact_matches, color_matches |-> color_matches,
     accepted_calls |-> accepted_calls, rejected_calls |-> rejected_calls]

\* a caller with one game: identities are not followed
OneGame == [addressed |-> 0, allocated |-> 0, self |-> NoRefs,
            other |-> [refs |-> NoRefs, game |-> <<>>]]

---------------------------------------------------------------------------
\* Callers.

\* the configurations a caller builds, before the game is constructed
InitGame ==
    /\ status = "config"
    /\ \E colors \in SUBSET PaletteChars,
          code_length \in -1..MaxLen,
          max_tries \in 0..MaxTriesArg :
            config = GameConfig(colors, code_length, max_tries)
    /\ secret_code = <<>>
    /\ tries = 0
    /\ game_won = FALSE
    /\ guess = <<>>
    /\ accepted = FALSE
    /\ message = NoMessage
    /\ exact_matches = 0
    /\ color_matches = 0
    /\ accepted_calls = 0
    /\ rejected_calls = 0

\* code that uses the class directly, with one game
Init ==
    /\ pc = "caller"
    /\ InitGame
    /\ objects = OneGame

\* the texts a player enters: every string of up to CODE_LENGTH characters
\* (the empty string when CODE_LENGTH is negative), and the strings of one
\* character more that repeat a single character
Strings(chars, n) == UNION {[1..k -> chars] : k \in 0..n}
Repeats(chars, n) == {[i \in 1..n |-> c] : c \in chars}
LongestGuess == IF config.CODE_LENGTH >= 0 THEN config.CODE_LENGTH ELSE 0
Guesses ==
    Strings(InputChars, LongestGuess) \cup Repeats(InputChars, LongestGuess + 1)

Next ==
    \/ __init__ /\ UNCHANGED <<pc, objects>>
    \/ \E g \in Guesses : play_turn(g) /\ UNCHANGED <<pc, objects>>

Spec == Init /\ [][Next]_vars

\* the same callers on the games with the longest budget of tries, in which
\* a call can continue the game, win it and lose it
InitLong ==
    /\ Init
    /\ config.MAX_TRIES = MaxTriesArg

SpecLong == InitLong /\ [][Next]_vars

\* Scoring under the default configuration GameConfig(): a game as __init__
\* leaves it and the guess a caller is about to submit, both over four of
\* the six default colours.
InitScore ==
    /\ pc = "caller"
    /\ status = "ready"
    /\ config = GameConfig(NoColors, DEFAULT_CODE_LENGTH, DEFAULT_MAX_TRIES)
    /\ secret_code \in _generate_secret_code
    /\ secret_code \in [1..config.CODE_LENGTH -> ScoreColors]
    /\ tries = 0
    /\ game_won = FALSE
    /\ guess \in [1..config.CODE_LENGTH -> ScoreColors]
    /\ accepted = FALSE
    /\ message = NoMessage
    /\ exact_matches = 0
    /\ color_matches = 0
    /\ accepted_calls = 0
    /\ rejected_calls = 0
    /\ objects = OneGame

\* the caller submits the guess, once
NextScore ==
    /\ message = NoMessage
    /\ play_turn(guess)
    /\ UNCHANGED <<pc, objects>>

SpecScore == InitScore /\ [][NextScore]_vars

---------------------------------------------------------------------------
\* A caller with two games, each built as MastermindGame() on a configuration
\* with the default palette, and played in any interleaving.

\* GameConfig(CODE_LENGTH=1, MAX_TRIES=...): COLORS is left to __post_init__
TwoConfig == GameConfig(NoColors, 1, MaxTriesArg)

\* the secret codes followed: those over two of the six default colours
TwoColors == {"R", "G"}

\* a game not yet constructed
Unbuilt ==
    [status |-> "config", config |-> TwoConfig, secret_code |-> <<>>,
     tries |-> 0, game_won |-> FALSE, guess |-> <<>>,
     accepted |-> FALSE, message |-> NoMessage,
     exact_matches |-> 0, color_matches |-> 0,
     accepted_calls |-> 0, rejected_calls |-> 0]

InitTwo ==
    /\ pc = "caller"
    /\ status = Unbuilt.status
    /\ config = Unbuilt.config
    /\ secret_code = Unbuilt.secret_code
    /\ tries = Unbuilt.tries
    /\ game_won = Unbuilt.game_won
    /\ guess = Unbuilt.guess
    /\ accepted = Unbuilt.accepted
    /\ message = Unbuilt.message
    /\ exact_matches = Unbuilt.exact_matches
    /\ color_matches = Unbuilt.color_matches
    /\ accepted_calls = Unbuilt.accepted_calls
    /\ rejected_calls = Unbuilt.rejected_calls
    /\ objects = [addressed |-> 1, allocated |-> 0, self |-> NoRefs,
                  other |-> [refs |-> NoRefs, game |-> Unbuilt]]

\* MastermindGame(): line 22 builds the configuration object, line 15 its
\* palette list, line 29 (random.choices) the secret code list
new_game ==
    /\ __init__
    /\ secret_code' \in [1..config.CODE_LENGTH -> TwoColors]
    /\ objects' = [objects EXCEPT
                     !.allocated = @ + 3,
                     !.self = [config |-> objects.allocated + 1,
                               COLORS |-> new_default_list(objects.allocated + 2),
                               secret_code |-> objects.allocated + 3]]
    /\ UNCHANGED pc

\* the other game as it is after a call on self: an object both games refer
\* to is one object, so what the call leaves in it is what the other game sees
seen_by_other(o) ==
    [o EXCEPT
       !.game.secret_code =
           IF o.refs.secret_code # 0 /\ o.refs.secret_code = objects.self.secret_code
           THEN secret_code' ELSE @,
       !.game.config =
           IF o.refs.config # 0 /\ o.refs.config = objects.self.config
           THEN config'
           ELSE IF o.refs.COLORS # 0 /\ o.refs.COLORS = objects.self.COLORS
           THEN [@ EXCEPT !.COLORS = config'.COLORS]
           ELSE @]

\* game.play_turn(g) on the game addressed
call(g) ==
    /\ play_turn(g)
    /\ objects' = [objects EXCEPT !.other = seen_by_other(@)]
    /\ UNCHANGED pc

\* the caller turns to its other game
switch ==
    /\ status' = objects.other.game.status
    /\ config' = objects.other.game.config
    /\ secret_code' = objects.other.game.secret_code
    /\ tries' = objects.other.game.tries
    /\ game_won' = objects.other.game.game_won
    /\ guess' = objects.other.game.guess
    /\ accepted' = objects.other.game.accepted
    /\ message' = objects.other.game.message
    /\ exact_matches' = objects.other.game.exact_matches
    /\ color_matches' = objects.other.game.color_matches
    /\ accepted_calls' = objects.other.game.accepted_calls
    /\ rejected_calls' = objects.other.game.rejected_calls
    /\ objects' = [addressed |-> 3 - objects.addressed,
                   allocated |-> objects.allocated,
                   self |-> objects.other.refs,
                   other |-> [refs |-> objects.self, game |-> self_game]]
    /\ UNCHANGED pc

NextTwo ==
    \/ new_game
    \/ \E g \in Guesses : call(g)
    \/ switch

SpecTwo == InitTwo /\ [][NextTwo]_vars

---------------------------------------------------------------------------
\* main(): the interactive loop.  main() itself builds MastermindGame() with
\* the default configuration; the loop is modelled over the game of any
\* configuration, which is what it does once the defaults are edited or a
\* configuration is passed on line 97.

\* the while test without its tries < MAX_TRIES half
loop_condition_no_budget == ~game_won

\* the while test with <= where line 100 has <
loop_condition_le == ~game_won /\ tries <= config.MAX_TRIES

\* the while test of line 100
loop_condition == ~game_won /\ tries < config.MAX_TRIES

\* line 103: the stripped input is the quit sentinel
is_quit(text) == lower(text) = <<"q">>

\* line 97: game = MastermindGame(...)
main_start ==
    /\ pc = "start"
    /\ __init__
    /\ pc' = IF status' = "ready" THEN "loop" ELSE "crashed"
    /\ UNCHANGED objects

\* one pass through the loop body (lines 101-108) on the input line typed
main_input(line) ==
    /\ pc = "loop"
    /\ loop_condition
    /\ \E text \in {strip(line)} :
         IF is_quit(text)
         THEN /\ pc' = "quit"
              /\ UNCHANGED game_vars
         ELSE /\ play_turn(text)
              /\ UNCHANGED pc
    /\ UNCHANGED objects

\* the while test fails: main returns
main_exit ==
    /\ pc = "loop"
    /\ ~loop_condition
    /\ pc' = "done"
    /\ UNCHANGED <<game_vars, objects>>

\* the lines a player types: the guesses, bare or behind a blank, and the
\* quit sentinel in both cases and between blanks
QuitLines == {<<"q">>, <<"Q">>, <<" ", "q", " ">>}
Lines == Guesses \cup {<<" ">> \o g : g \in Guesses} \cup QuitLines

\* the palettes main() is run with: upper-case ones, the palettes a player can
\* match
MainColors == {"R", "G"}

InitMain ==
    /\ pc = "start"
    /\ InitGame
    /\ config.COLORS \subseteq MainColors
    /\ objects = OneGame

NextMain ==
    \/ main_start
    \/ \E line \in Lines : main_input(line)
    \/ main_exit

SpecMain == InitMain /\ [][NextMain]_vars

\* a pass through the loop body in which the player quits or enters a guess
\* that play_turn accepts
main_progress ==
    \/ \E line \in QuitLines : main_input(line)
    \/ /\ accepted' = TRUE
       /\ accepted_calls' = accepted_calls + 1
       /\ \E line \in Lines : main_input(line)

\* a pass through the loop body in which the guess is rejected
main_rejected ==
    /\ pc' = "loop"
    /\ accepted' = FALSE
    /\ message' = InvalidMessage
    /\ \E line \in Lines : main_input(line)

\* main() under a running interpreter (lines 97 and 100 are executed when
\* reached) and a player who keeps typing
PlayerTypes == WF_vars(\E line \in Lines : main_input(line))
Runs == WF_vars(main_start) /\ WF_vars(main_exit)
SpecMainTyping == SpecMain /\ Runs /\ PlayerTypes

\* ... and who sooner or later types a valid guess or the quit sentinel
SpecMainFair == SpecMain /\ Runs /\ WF_vars(main_progress)

---------------------------------------------------------------------------
\* Properties.

\* a play_turn call has returned
Called == message # NoMessage

\* the configuration is well formed: a non-empty palette, positive length and tries
WellFormed ==
    /\ config.COLORS # {}
    /\ config.CODE_LENGTH >= 1
    /\ config.MAX_TRIES >= 1

\* g, as play_turn normalises it, has the wrong length or a symbol outside the palette
InvalidGuess(g) ==
    \/ Len(g) # config.CODE_LENGTH
    \/ \E i \in 1..Len(g) : upper_char(g[i]) \notin config.COLORS

\* C1: a play_turn call with an invalid guess (wrong length, or a symbol that
\* is outside the palette once the text is normalised) returns accepted = false
\* and leaves tries, game_won and the secret code as they were.
C1_InvalidGuessIsFree ==
    [][(status = "ready" /\ InvalidGuess(guess'))
          => (/\ accepted' = FALSE
              /\ message' = InvalidMessage
              /\ tries' = tries
              /\ game_won' = game_won
              /\ secret_code' = secret_code)]_vars

\* C1 witness: mid-game, after a win, a guess of the right length with a
\* foreign symbol has been rejected
C1_Witness ==
    /\ status = "ready"
    /\ tries >= 1
    /\ game_won
    /\ Called
    /\ ~accepted
    /\ Len(guess) = config.CODE_LENGTH
    /\ WellFormed

\* c is a palette symbol, letter case aside
InPalette(c) == \E p \in config.COLORS : upper_char(p) = upper_char(c)

\* C2 (as claimed): for every well-formed configuration, play_turn accepts
\* exactly the guesses of length CODE_LENGTH whose symbols all belong to the
\* palette (letter case aside, the text being normalised first).
C2_AcceptedIffValid ==
    (status = "ready" /\ Called /\ WellFormed)
        => (accepted <=> (/\ Len(guess) = config.CODE_LENGTH
                          /\ \A i \in 1..Len(guess) : InPalette(guess[i])))

\* the number of positions where g and s agree
ExactCount(s, g) == Cardinality({i \in 1..Len(s) : g[i] = s[i]})

\* the number of occurrences of x in l
Occurrences(l, x) == Cardinality({i \in 1..Len(l) : l[i] = x})

Min(a, b) == IF a <= b THEN a ELSE b

\* the sum, over the symbols of S, of min(occurrences in s, occurrences in g)
RECURSIVE SharedCount(_, _, _)
SharedCount(S, s, g) ==
    IF S = {}
    THEN 0
    ELSE LET x == CHOOSE y \in S : TRUE
         IN  Min(Occurrences(s, x), Occurrences(g, x)) + SharedCount(S \ {x}, s, g)

SymbolsOf(l) == {l[i] : i \in 1..Len(l)}

\* C3: for every secret code and every valid guess the score is
\* exact = number of positions i with guess[i] = secret[i] and
\* color = (sum over symbols of min(occurrences in secret, occurrences in
\* guess)) - exact; secret RRGB, guess RGRB scores (2, 2) and secret RGBY,
\* guess YBGR scores (0, 4).
C3_ScoreFormula ==
    (status = "ready" /\ accepted)
        => /\ exact_matches = ExactCount(secret_code, upper(guess))
           /\ color_matches =
                SharedCount(SymbolsOf(secret_code) \cup SymbolsOf(upper(guess)),
                            secret_code, upper(guess)) - exact_matches
           /\ (secret_code = <<"R", "R", "G", "B">> /\ guess = <<"R", "G", "R", "B">>)
                => (exact_matches = 2 /\ color_matches = 2)
           /\ (secret_code = <<"R", "G", "B", "Y">> /\ guess = <<"Y", "B", "G", "R">>)
                => (exact_matches = 0 /\ color_matches = 4)

\* C3 witness: the guess RGRB has been scored against the secret RRGB
C3_Witness ==
    /\ accepted
    /\ secret_code = <<"R", "R", "G", "B">>
    /\ guess = <<"R", "G", "R", "B">>
    /\ exact_matches = 2
    /\ color_matches = 2

\* C4: for every secret code and every valid guess, the exact-match count
\* plus the color-match count of the turn is at most CODE_LENGTH.
C4_ScoreAtMostLength ==
    (status = "ready" /\ accepted)
        => exact_matches + color_matches <= config.CODE_LENGTH

\* C4 witness: a scored guess with repeated symbols in which exact and color
\* matches together fill the whole code
C4_Witness ==
    /\ accepted
    /\ exact_matches >= 1
    /\ color_matches >= 1
    /\ exact_matches + color_matches = config.CODE_LENGTH
    /\ Cardinality(SymbolsOf(guess)) < Len(guess)
    /\ Cardinality(SymbolsOf(secret_code)) < Len(secret_code)

\* C5 (as claimed): for every guess equal to the secret code, play_turn scores
\* exact_matches = CODE_LENGTH and color_matches = 0, sets game_won and
\* returns the win message.
C5_SecretGuessWins ==
    (status = "ready" /\ Called /\ WellFormed /\ guess = secret_code)
        => /\ accepted
           /\ exact_matches = config.CODE_LENGTH
           /\ color_matches = 0
           /\ game_won
           /\ message.kind = "Congratulations"

\* C6: from a new game, while the accepted guesses are all non-winning, the
\* MAX_TRIES-th accepted guess returns the Game Over message, which shows
\* the secret code, and no earlier accepted guess returns that message.
C6_LostOnLastTry ==
    (status = "ready" /\ accepted /\ ~game_won /\ tries <= config.MAX_TRIES)
        => /\ (message.kind = "Game Over") <=> (tries = config.MAX_TRIES)
           /\ (tries = config.MAX_TRIES) => (message.code = secret_code)

\* C6 witness: the second of two allowed tries has just been used up without
\* a win and the secret code is revealed
C6_Witness ==
    /\ status = "ready"
    /\ WellFormed
    /\ config.MAX_TRIES >= 2
    /\ accepted
    /\ ~game_won
    /\ tries = config.MAX_TRIES
    /\ message = GameOverMessage(secret_code)

\* the game is terminal
Terminal == game_won \/ tries = config.MAX_TRIES

\* C7 (as claimed): once the game is terminal (game_won, or tries =
\* MAX_TRIES), no later play_turn call changes tries or game_won.
C7_TerminalIsFinal ==
    [][(status = "ready" /\ WellFormed /\ Terminal)
          => (tries' = tries /\ game_won' = game_won)]_vars

\* C8: across play_turn calls tries never decreases and grows by exactly 1
\* on each accepted guess, and game_won, once true, is never set back to
\* false.  (Every step of a constructed game is a play_turn call, and
\* accepted' is what that call returns.)
C8_Monotone ==
    [][status = "ready"
          => (/\ tries' >= tries
              /\ accepted' => (tries' = tries + 1)
              /\ game_won => game_won')]_vars

\* C8 witness: after a win a further, non-winning guess has been accepted:
\* tries has grown to 2 and game_won is still true
C8_Witness ==
    /\ status = "ready"
    /\ WellFormed
    /\ accepted
    /\ tries = 2
    /\ game_won
    /\ message.kind # "Congratulations"

\* C9 (as claimed): for every configuration a caller can pass, the secret
\* code generated at construction has length exactly CODE_LENGTH and every
\* one of its symbols is a member of the palette.
C9_SecretFitsConfig ==
    status = "ready"
        => /\ Len(secret_code) = config.CODE_LENGTH
           /\ \A i \in 1..Len(secret_code) : secret_code[i] \in config.COLORS

\* C10 (as claimed): constructing a game with a malformed configuration
\* (empty palette, non-positive CODE_LENGTH or non-positive MAX_TRIES) fails,
\* so no such game reaches a state in which play_turn can be called.
C10_MalformedConfigRejected ==
    ~WellFormed => status # "ready"

\* C11: the secret code is immutable: no play_turn call, accepted or
\* rejected, changes the stored secret code, the blanking of matched slots
\* during scoring included.
C11_SecretImmutable ==
    [][status = "ready" => secret_code' = secret_code]_vars

\* C11 witness: a second accepted guess has been scored with color matches,
\* so the second loop has blanked slots, and the stored code is still a full
\* code over the palette
C11_Witness ==
    /\ status = "ready"
    /\ WellFormed
    /\ accepted
    /\ tries >= 2
    /\ color_matches >= 1
    /\ secret_code \in [1..config.CODE_LENGTH -> config.COLORS]

\* C12: the number of tries shown in the win message is the number of
\* accepted guesses made so far, the winning one included; rejected guesses
\* made before it are not counted (a correct first guess shows 1 whatever
\* was rejected before it).
C12_WinMessageCountsAccepted ==
    (status = "ready" /\ accepted /\ message.kind = "Congratulations")
        => message.tries = accepted_calls

\* C12 witness: the first accepted guess wins after a rejected one, and the
\* message shows 1
C12_Witness ==
    /\ status = "ready"
    /\ WellFormed
    /\ rejected_calls >= 1
    /\ accepted_calls = 1
    /\ accepted
    /\ message = WonMessage(1)

\* C13 (as claimed): a win takes precedence over a loss: the accepted guess
\* that brings tries to MAX_TRIES and equals the secret is reported as won,
\* no turn is reported as both won and lost, and the Game Over message is
\* only ever returned by a turn that leaves game_won false.
C13_WinBeforeLoss ==
    (status = "ready" /\ WellFormed /\ accepted)
        => /\ (exact_matches = config.CODE_LENGTH)
                => (game_won /\ message.kind = "Congratulations")
           /\ (message.kind = "Game Over") => ~game_won

\* C14: with MAX_TRIES = 0 the interactive loop never executes a turn: the
\* game stays as constructed (tries = 0, game_won false), no play_turn call
\* is made, and so no Game Over is ever reported.
C14_ZeroTriesNoTurn ==
    (config.MAX_TRIES = 0)
        => /\ tries = 0
           /\ ~game_won
           /\ message = NoMessage
           /\ accepted_calls = 0
           /\ rejected_calls = 0

\* C14 witness: a game with MAX_TRIES = 0 and an otherwise playable
\* configuration was constructed and the loop was left at its first test
C14_Witness ==
    /\ config.MAX_TRIES = 0
    /\ config.CODE_LENGTH >= 1
    /\ config.COLORS # {}
    /\ status = "ready"
    /\ pc = "done"

\* C15: under main's loop play_turn is never called once game_won is true or
\* tries >= MAX_TRIES, so 0 <= tries <= MAX_TRIES in every state, and
\* game_won or tries = MAX_TRIES holds when the loop is left without a quit.
C15_LoopKeepsTriesInBudget ==
    /\ [](status = "ready" => (0 <= tries /\ tries <= config.MAX_TRIES))
    /\ [](pc = "done" => (game_won \/ tries = config.MAX_TRIES))
    /\ [][(status = "ready" /\ (game_won \/ tries >= config.MAX_TRIES))
             => UNCHANGED game_vars]_vars

\* C15 witness: the loop was left after a game of two tries was lost on the
\* last one
C15_Witness ==
    /\ pc = "done"
    /\ WellFormed
    /\ ~game_won
    /\ tries = config.MAX_TRIES
    /\ tries >= 2
    /\ message.kind = "Game Over"

\* main() has ended: the loop was left, or the player quit
MainEnded == pc \in {"done", "quit"}

\* C16: the interactive loop accepts at most MAX_TRIES guesses and, when the
\* player sooner or later enters a valid guess or the quit sentinel, it ends
\* (won, out of tries, or quit); a rejected guess can always be entered and
\* consumes no try, so rejected guesses alone keep the loop where it is.
C16_LoopTerminates ==
    /\ [](status = "ready" => accepted_calls <= config.MAX_TRIES)
    /\ (pc = "loop") ~> MainEnded
    /\ [](pc = "done" => (game_won \/ tries = config.MAX_TRIES))
    /\ []((pc = "loop" /\ loop_condition) => ENABLED main_rejected)
    /\ [][main_rejected => UNCHANGED <<tries, game_won, pc>>]_vars

\* C16 witness: the loop has ended after a full budget of two accepted
\* guesses, with a rejected one among the inputs
C16_Witness ==
    /\ pc = "done"
    /\ WellFormed
    /\ accepted_calls = config.MAX_TRIES
    /\ accepted_calls >= 2
    /\ rejected_calls >= 1

\* the loop ends whatever the player types, as long as they keep typing
C16_EndsOnAnyInput == (pc = "loop") ~> MainEnded

\* C17: play_turn normalises the guess before it validates and scores it:
\* from any state of a game, a guess and the same guess in another letter
\* case (each is compared with its lower-case form) give the same accepted
\* flag, the same message and the same tries and game_won after the call;
\* and every call made leaves what turn() computes for its guess.
C17_CaseInsensitive ==
    /\ [](status = "ready" => \A g \in Guesses : turn(g) = turn(lower(g)))
    /\ [][(status = "ready" /\ status' = "ready")
             => turn(guess') = [accepted |-> accepted', message |-> message',
                                tries |-> tries', game_won |-> game_won']]_vars

\* C17 witness: a guess typed in lower case was accepted and won the game
C17_Witness ==
    /\ status = "ready"
    /\ WellFormed
    /\ accepted
    /\ game_won
    /\ \E i \in 1..Len(guess) : guess[i] = "r"
    /\ turn(guess) = turn(upper(guess))

\* the (exact, color) pair of scoring guess g against secret s
score(s, g) ==
    LET st == score_loops(s, g)
    IN  <<st.exact_matches, st.color_matches>>

\* C18: scoring is symmetric in its two arguments: the pair a turn computes
\* for its guess against the secret code equals the pair of scoring the
\* secret code, taken as the guess, against the guess, taken as the secret.
C18_ScoreSymmetric ==
    (Called /\ accepted)
        => /\ <<exact_matches, color_matches>> = score(list(upper(guess)), secret_code)
           /\ score(secret_code, list(upper(guess))) = score(list(upper(guess)), secret_code)

\* C18 witness: a guess with repeated symbols was scored against a secret
\* code with other repeated symbols, with matches in both passes, the second
\* pass consuming a secret slot to the left of the guess position
C18_Witness ==
    /\ accepted
    /\ secret_code = <<"G", "R", "R", "B">>
    /\ guess = <<"R", "R", "G", "G">>
    /\ exact_matches = 1
    /\ color_matches = 2

\* both games of the caller are constructed
BothBuilt == status = "ready" /\ objects.other.game.status = "ready"

\* the state of the game not addressed: tries, game_won, secret code, palette
other_view(o) ==
    [tries |-> o.other.game.tries,
     game_won |-> o.other.game.game_won,
     secret_code |-> o.other.game.secret_code,
     COLORS |-> o.other.game.config.COLORS]

\* C19: game instances share no mutable state: two games built on default
\* configurations refer to different configuration objects, different
\* palette lists and different secret code lists, and a play_turn call on
\* one of them leaves tries, game_won, the secret code and the palette of
\* the other as they were.
C19_NoSharedState ==
    /\ [](BothBuilt
            => /\ objects.self.config # objects.other.refs.config
               /\ objects.self.COLORS # objects.other.refs.COLORS
               /\ objects.self.secret_code # objects.other.refs.secret_code)
    /\ [][(BothBuilt /\ objects'.addressed = objects.addressed)
             => other_view(objects') = other_view(objects)]_vars

\* C19 witness: both games were played, in turns; the one addressed has just
\* had a guess accepted and is lost, the other one is won on another tries
\* count
C19_Witness ==
    /\ BothBuilt
    /\ accepted
    /\ message.kind = "Game Over"
    /\ ~game_won
    /\ objects.other.game.game_won
    /\ objects.other.game.tries >= 1
    /\ objects.other.game.tries # tries
    /\ objects.other.game.secret_code # secret_code

====
